---- MODULE Spec2Model ----
(***************************************************************************)
(* Hash messaging: request/response messaging over the URL fragment of a   *)
(* tab.  Two endpoints are modelled:                                       *)
(*   variant = "bg"       src/hash-messaging-bg.js (one channel per tab)   *)
(*   variant = "content"  src/unnamed/part_000     (one channel, secret)   *)
(* Every JavaScript function is an operator from a state record S to the   *)
(* state record after the call; an action evaluates the whole handler and  *)
(* commits the result.                                                     *)
(***************************************************************************)
EXTENDS Integers, Sequences, FiniteSets, TLC

VARIABLES
  variant,          \* which endpoint this behaviour is about
  secret,           \* content: let secret
  sendQueue,        \* content: const sendQueue (call numbers)
  isSending,        \* content: let isSending
  tabState,         \* bg: tabId -> { queue, isSending }
  pendingRequests,  \* id -> call whose resolver is registered (NoCall: absent)
  incomingBuffers,  \* id -> [has, arr]
  messageHandlers,  \* registered handlers, in registration order
  senders,          \* the live sendChunks closures, in registration order
  timers,           \* the armed setTimeout closures
  dispatches,       \* the suspended dispatchRequest coroutines
  dispatched,       \* per dispatchRequest call: the responses it handed to sendChunks
  slot,             \* tab -> the frame currently in the URL fragment
  trace,            \* whether lastEvent and lastWrites are recorded
  echo,             \* bg: whether tabs.onUpdated is modelled for the endpoint's own writes
  notify,           \* bg: tab -> change notifications of own writes, undelivered
  calls,            \* call number -> the sendMessage call and its promise
  settled,          \* the calls in the order their promises settled
  nextId,           \* generateId: the next fresh id
  exposed,          \* generated ids that have appeared in a written frame
  reqLog,           \* call number -> indices of the REQ chunks written for it
  lastEvent,        \* the event handled by the last step
  lastWrites,       \* the frames written to slots by the last step
  peerCount,        \* frames the (unconstrained) peer has written so far
  peer,             \* tab -> state of the compliant peer (SpecCompliant only)
  codec             \* the text being chunked and rejoined (SpecCodec only)

vars == <<variant, secret, sendQueue, isSending, tabState, pendingRequests,
          incomingBuffers, messageHandlers, senders, timers, dispatches,
          dispatched, slot,
          trace, echo, notify, calls, settled, nextId, exposed, reqLog, lastEvent,
          lastWrites, peerCount, peer, codec>>

(***************************** program constants ***************************)
MAX_HASH_BYTES == 4000
OVERHEAD == 120

(********************************* bounds **********************************)
MaxCalls == 3        \* sendMessage calls per behaviour
MaxTabs == 2         \* bg: destinations
MaxHandlers == 2     \* onMessage registrations
MaxPeerFrames == 2   \* frames written by the unconstrained peer
MaxEcho == 1         \* bg: undelivered notifications of own writes per tab

Tabs == 1..MaxTabs
Win == 1             \* content: the one window whose location.hash is the slot
CallIds == 1..MaxCalls
NoCall == 0
PeerId == 0          \* a message id chosen by the peer
Ids == 0..MaxCalls   \* PeerId and the ids generateId can return

(******************************* messages **********************************)
JSUndefined == "undefined"
Null == "<null>"
NoSecret == "<none>"
Secrets == {"s1", "s2"}
Msgs == {"ping", "big"}

\* the length in bytes of JSON.stringify(m) passed through
\* unescape(encodeURIComponent(.)); JSON.stringify(undefined) is undefined,
\* which encodeURIComponent turns into the 9 characters "undefined"
JsonLen(m) ==
  CASE m = "ping" -> 13
    [] m = "pong" -> 15
    [] m = "big" -> 2911
    [] m = "huge" -> 5821
    [] OTHER -> 9

\* A text is a sequence of slices [src, lo, hi): characters lo..hi-1 of the
\* base64url encoding of message src.  A chunk is one slice.
Slice(src, lo, hi) == [src |-> src, lo |-> lo, hi |-> hi]
Hole == Slice("", 0, 0)           \* an array slot that is undefined
Undef9 == Slice("?", 0, 9)        \* the characters "undefined" of `${undefined}`
SLen(s) == s.hi - s.lo
TextLen(t) == IF t = <<>> THEN 0 ELSE
  LET RECURSIVE sum(_)
      sum(i) == IF i = 0 THEN 0 ELSE sum(i - 1) + SLen(t[i])
  IN sum(Len(t))

\* btoa output without the '=' padding: 4 characters per 3 bytes, rounded up
encodeBase64(m) == <<Slice(m, 0, (4 * JsonLen(m) + 2) \div 3)>>

\* JSON.parse(decodeBase64(full)): succeeds on the complete encoding of a
\* JSON value, throws on anything else (a truncated, reordered or foreign
\* text, and the text "undefined")
decodeBase64(full) ==
  IF /\ Len(full) = 1
     /\ full[1].src \in Msgs \cup {"pong", "huge"}
     /\ full = encodeBase64(full[1].src)
  THEN [ok |-> TRUE, msg |-> full[1].src]
  ELSE [ok |-> FALSE, msg |-> JSUndefined]

\* str.slice(i, j) of a text made of one slice
StrSlice(str, i, j) ==
  LET s == str[1]
      a == IF s.lo + i < s.hi THEN s.lo + i ELSE s.hi
      b == IF s.lo + j < s.hi THEN s.lo + j ELSE s.hi
  IN Slice(s.src, a, b)

\* a step that loses the character between two chunks
chunkStringStepLossy(i, size) == i + size + 1
\* for (let i = 0; i < str.length; i += size)
chunkStringStep(i, size) == i + size

RECURSIVE chunkFrom(_, _, _)
chunkFrom(str, size, i) ==
  IF i < TextLen(str)
  THEN <<StrSlice(str, i, i + size)>> \o chunkFrom(str, size, chunkStringStep(i, size))
  ELSE <<>>

chunkString(str, size) == chunkFrom(str, size, 0)

chunkSize == MAX_HASH_BYTES - OVERHEAD

ChunksOf(data) == chunkString(encodeBase64(data), chunkSize)

\* buffer.join(''): holes contribute nothing; adjacent slices that continue
\* one another are one run of characters
RECURSIVE JoinFrom(_, _)
JoinFrom(arr, i) ==
  IF i > Len(arr) THEN <<>>
  ELSE LET rest == JoinFrom(arr, i + 1)
           e == arr[i]
       IN IF e = Hole THEN rest
          ELSE IF rest # <<>> /\ rest[1].src = e.src /\ rest[1].lo = e.hi
               THEN <<Slice(e.src, e.lo, rest[1].hi)>> \o Tail(rest)
               ELSE <<e>> \o rest
Join(arr) == JoinFrom(arr, 1)

\* new Array(total)
NewArray(total) == [i \in 1..total |-> Hole]
\* buffer.push(data): the chunk lands after the last slot, whatever its index
ArrayAppend(arr, index, data) == Append(arr, data)
\* buffer[index] = data (the array grows when index >= length)
ArraySet(arr, index, data) ==
  [i \in 1..(IF index + 1 > Len(arr) THEN index + 1 ELSE Len(arr)) |->
     IF i = index + 1 THEN data ELSE IF i <= Len(arr) THEN arr[i] ELSE Hole]
\* buffer.filter(v => v !== undefined).length
Filled(arr) == Cardinality({i \in 1..Len(arr) : arr[i] # Hole})

(********************************* frames **********************************)
Frame(k, sec, type, id, index, total, data) ==
  [k |-> k, secret |-> sec, type |-> type, id |-> id, index |-> index,
   total |-> total, data |-> data]
Blank == Frame("", NoSecret, "", PeerId, 0, 0, Hole)
InitFrame(sec) == Frame("INIT", sec, "", PeerId, 0, 0, Hole)
AckInitFrame(sec) == Frame("ACK-INIT", sec, "", PeerId, 0, 0, Hole)
MsgFrame(sec, type, id, index, total, data) ==
  Frame("MSG", sec, type, id, index, total, data)
AckFrame(sec, id, index) == Frame("ACK", sec, "", id, index, 0, Hole)

\* The length of a frame in characters.  A message id is a UUID
\* (crypto.randomUUID(), 36 characters); a secret is whatever followed
\* "INIT:", here two short tokens and one of 128 characters.
UuidLen == 36
LongSecret == "k128"
SecretLen(sec) ==
  CASE sec = "" -> 0
    [] sec = LongSecret -> 128
    [] OTHER -> 2
DigitsLen(n) == IF n < 10 THEN 1 ELSE IF n < 100 THEN 2 ELSE 3
\* `MSG:${secret}:${type}:${id}:${index}/${total}:${chunks[index]}`, and the
\* same without `${secret}:` in bg
MsgFrameLen(f) ==
  4 + (IF f.secret = NoSecret THEN 0 ELSE SecretLen(f.secret) + 1)
    + 3 + 1 + UuidLen + 1 + DigitsLen(f.index) + 1 + DigitsLen(f.total) + 1
    + SLen(f.data)

(***************************** the state record ****************************)
Cur(ev) ==
  [secret |-> secret, sendQueue |-> sendQueue, isSending |-> isSending,
   tabState |-> tabState, pendingRequests |-> pendingRequests,
   incomingBuffers |-> incomingBuffers, messageHandlers |-> messageHandlers,
   senders |-> senders, timers |-> timers, dispatches |-> dispatches,
   dispatched |-> dispatched,
   slot |-> slot, echo |-> echo, notify |-> notify, calls |-> calls, settled |-> settled,
   nextId |-> nextId, exposed |-> exposed, reqLog |-> reqLog,
   lastEvent |-> IF trace THEN ev ELSE lastEvent, lastWrites |-> <<>>,
   trace |-> trace]

Event(kind, tab, frame) == [kind |-> kind, tab |-> tab, frame |-> frame]

\* a closure of sendChunks is garbage once its listener is removed and its
\* first sendNext has run; a coroutine is garbage once its loop has ended
SenderLive(s) == s.listening \/ ~s.started
DispatchLive(d) == d.phase # "done"
LiveSenders(seq) == SelectSeq(seq, SenderLive)
LiveDispatches(seq) == SelectSeq(seq, DispatchLive)

Commit(S) ==
  /\ secret' = S.secret
  /\ sendQueue' = S.sendQueue
  /\ isSending' = S.isSending
  /\ tabState' = S.tabState
  /\ pendingRequests' = S.pendingRequests
  /\ incomingBuffers' = S.incomingBuffers
  /\ messageHandlers' = S.messageHandlers
  /\ senders' = LiveSenders(S.senders)
  /\ timers' = S.timers
  /\ dispatches' = LiveDispatches(S.dispatches)
  /\ dispatched' = S.dispatched
  /\ slot' = S.slot
  /\ notify' = S.notify
  /\ calls' = S.calls
  /\ settled' = S.settled
  /\ nextId' = S.nextId
  /\ exposed' = S.exposed
  /\ reqLog' = S.reqLog
  /\ lastEvent' = S.lastEvent
  /\ lastWrites' = S.lastWrites
  /\ UNCHANGED <<variant, trace, echo, codec>>

\* what every write to a slot records: the value, the write itself, and the
\* message id the frame reveals to whoever reads the slot
Written(S, tab, payload) ==
  [S EXCEPT !.slot[tab] = payload,
            !.lastWrites = IF S.trace
                           THEN Append(@, [tab |-> tab, frame |-> payload])
                           ELSE @,
            !.exposed = IF payload.k \in {"MSG", "ACK"}
                        THEN @ \cup {payload.id} ELSE @]

\* the promise of call c settles
Settle(S, c, status, result) ==
  [S EXCEPT !.calls[c].status = status, !.calls[c].result = result,
            !.settled = Append(@, c)]

NoBuffer == [has |-> FALSE, arr |-> <<>>]

SenderTotal(s) == Len(ChunksOf(s.data))
SenderChunk(s) ==
  IF s.index < SenderTotal(s) THEN ChunksOf(s.data)[s.index + 1] ELSE Undef9
NewSender(tab, type, id, data, c) ==
  [tab |-> tab, type |-> type, id |-> id, data |-> data, index |-> 0,
   listening |-> TRUE, started |-> FALSE, call |-> c]
LogChunk(S, s) ==
  IF s.call = NoCall THEN S
  ELSE [S EXCEPT !.reqLog[s.call] = Append(@, s.index)]

\* for (const handler of messageHandlers): the first handler at or after pos
\* whose return value is not undefined suspends the loop at its await
RECURSIVE NextResponder(_, _)
NextResponder(handlers, pos) ==
  IF pos > Len(handlers) THEN 0
  ELSE IF handlers[pos].kind # "none" THEN pos
  ELSE NextResponder(handlers, pos + 1)
Advance(S, d) ==
  LET p == NextResponder(S.messageHandlers, d.pos)
  IN IF p = 0 THEN [d EXCEPT !.phase = "done"]
     ELSE [d EXCEPT !.phase = "await", !.pos = p]
\* the record of a dispatchRequest call: n is its number
NewDispatch(S, tab, id, message, phase) ==
  [n |-> Len(S.dispatched) + 1, tab |-> tab, id |-> id, message |-> message,
   pos |-> 1, responded |-> FALSE, phase |-> phase]
Dispatched(S, d) ==
  [S EXCEPT !.dispatches = Append(@, d),
            !.dispatched = Append(@, [tab |-> d.tab, id |-> d.id, sent |-> <<>>,
                                      done |-> d.phase = "done"])]
\* coroutine d resumed: S1 is the state after its sendResponse, d1 the coroutine
Resumed(S, S1, i, d1, response) ==
  [S1 EXCEPT !.dispatches[i] = d1,
             !.dispatched[d1.n].done = d1.phase = "done",
             !.dispatched[d1.n].sent =
                IF Len(S1.senders) > Len(S.senders) THEN Append(@, response) ELSE @]

(********************* src/hash-messaging-bg.js (bg) ***********************)
ensureTabState(S, tabId) ==
  IF S.tabState[tabId].has THEN S
  ELSE [S EXCEPT !.tabState[tabId] =
          [has |-> TRUE, queue |-> <<>>, isSending |-> FALSE]]

\* browser.tabs.update(tabId, {url}): the tab's URL changes, and
\* tabs.onUpdated will report the change if the URL differs
updateTabHash(S, tabId, payload) ==
  LET S1 == Written(S, tabId, payload)
  IN IF S.echo /\ payload # S.slot[tabId] /\ Len(S.notify[tabId]) < MaxEcho
     THEN [S1 EXCEPT !.notify[tabId] = Append(@, payload)]
     ELSE S1

sendNext(S, i) ==
  LET s == S.senders[i]
      payload == MsgFrame(NoSecret, s.type, s.id, s.index, SenderTotal(s),
                          SenderChunk(s))
      S1 == LogChunk(updateTabHash(S, s.tab, payload), s)
  IN [S1 EXCEPT !.senders[i].index = @ + 1]

\* the tabs.onUpdated listener of sendChunks
AckExpected(s, h) == h = AckFrame(NoSecret, s.id, s.index - 1)
onUpdated(S, i, updatedTabId, h) ==
  LET s == S.senders[i]
  IN IF ~s.listening \/ updatedTabId # s.tab THEN S
     ELSE IF AckExpected(s, h)
          THEN IF s.index < SenderTotal(s) THEN sendNext(S, i)
               ELSE [S EXCEPT !.senders[i].listening = FALSE]
          ELSE S

\* the synchronous part of sendChunks: the listener is registered and
\* browser.tabs.get is asked for the tab; its callback runs sendNext later
sendChunks(S, tabId, type, id, data, c) ==
  [S EXCEPT !.senders = Append(@, NewSender(tabId, type, id, data, c))]

tabsGetCallback(S, i) == sendNext([S EXCEPT !.senders[i].started = TRUE], i)

\* state.queue.pop(), the slip that would serve the newest call first
QueuePop(queue) ==
  [item |-> queue[Len(queue)], rest |-> SubSeq(queue, 1, Len(queue) - 1)]
\* state.queue.shift(): the oldest entry, and the queue without it
QueueShift(queue) == [item |-> Head(queue), rest |-> Tail(queue)]
QueuePush(queue, c) == Append(queue, c)
\* a processQueue that forgets the isSending guard
processQueueNeverBusy(sending) == FALSE
\* if (state.isSending) return
processQueueBusy(sending) == sending

processQueue(S0, tabId) ==
  LET S == ensureTabState(S0, tabId)
      state == S.tabState[tabId]
  IN IF processQueueBusy(state.isSending) THEN S
     ELSE IF Len(state.queue) = 0 THEN S
     ELSE LET c == QueueShift(state.queue).item
              id == S.nextId
              S1 == [S EXCEPT !.tabState[tabId].isSending = TRUE,
                              !.tabState[tabId].queue = QueueShift(@).rest,
                              !.nextId = @ + 1,
                              !.calls[c].status = "inflight",
                              !.pendingRequests[id] = c]
              S2 == sendChunks(S1, tabId, "REQ", id, S.calls[c].message, c)
          IN [S2 EXCEPT !.timers = @ \cup {[id |-> id, call |-> c]}]

\* the closure stored in pendingRequests by processQueue
resolver(S, c, result) ==
  LET tabId == S.calls[c].tab
      S1 == Settle(S, c, "resolved", result)
  IN processQueue([S1 EXCEPT !.tabState[tabId].isSending = FALSE], tabId)

\* a timer callback without the pendingRequests.has(id) test
timeoutCallbackUnguarded(S, tm) ==
  LET tabId == S.calls[tm.call].tab
      S1 == [S EXCEPT !.pendingRequests[tm.id] = NoCall]
      S2 == Settle(S1, tm.call, "rejected", "Timeout")
  IN processQueue([S2 EXCEPT !.tabState[tabId].isSending = FALSE], tabId)

\* the setTimeout callback of processQueue
timeoutCallback(S, tm) ==
  IF S.pendingRequests[tm.id] # NoCall
  THEN LET tabId == S.calls[tm.call].tab
           S1 == [S EXCEPT !.pendingRequests[tm.id] = NoCall]
           S2 == Settle(S1, tm.call, "rejected", "Timeout")
       IN processQueue([S2 EXCEPT !.tabState[tabId].isSending = FALSE], tabId)
  ELSE S

sendMessage(S0, tabId, c) ==
  LET S == ensureTabState(S0, tabId)
  IN processQueue([S EXCEPT !.tabState[tabId].queue = QueuePush(@, c)], tabId)

onMessage(S, handler) ==
  [S EXCEPT !.messageHandlers = Append(@, handler)]

\* the part of dispatchRequest before its first await (browser.tabs.get)
dispatchRequest(S, tabId, id, message) ==
  Dispatched(S, NewDispatch(S, tabId, id, message, "tabget"))

\* a sendResponse without the responded latch
sendResponseUnlatched(S, d, response) ==
  sendChunks(S, d.tab, "RES", d.id, response, NoCall)

sendResponse(S, d, response) ==
  IF d.responded THEN S
  ELSE sendChunks(S, d.tab, "RES", d.id, response, NoCall)

\* dispatchRequest from one await to the next
dispatchResume(S, i) ==
  LET d == S.dispatches[i]
      response == S.messageHandlers[d.pos].value
  IN IF d.phase = "tabget"
     THEN Resumed(S, S, i, Advance(S, d), JSUndefined)
     ELSE LET S1 == sendResponse(S, d, response)
          IN Resumed(S, S1, i,
                     Advance(S1, [d EXCEPT !.responded = TRUE, !.pos = @ + 1]),
                     response)

BufferFor(S, id, total) ==
  IF S.incomingBuffers[id].has THEN S.incomingBuffers[id].arr
  ELSE NewArray(total)

handleIncoming(S, tabId, h) ==
  IF h.k # "MSG" THEN S
  ELSE
    LET buffer == ArraySet(BufferFor(S, h.id, h.total), h.index, h.data)
        S1 == [S EXCEPT !.incomingBuffers[h.id] = [has |-> TRUE, arr |-> buffer]]
        S2 == updateTabHash(S1, tabId, AckFrame(NoSecret, h.id, h.index))
    IN IF Filled(buffer) = h.total
       THEN LET parsed == decodeBase64(Join(buffer))
                S3 == [S2 EXCEPT !.incomingBuffers[h.id] = NoBuffer]
            IN IF ~parsed.ok THEN S2
               ELSE IF h.type = "REQ"
                    THEN dispatchRequest(S3, tabId, h.id, parsed.msg)
               ELSE IF S3.pendingRequests[h.id] # NoCall
                    THEN LET S4 == resolver(S3, S3.pendingRequests[h.id], parsed.msg)
                         IN [S4 EXCEPT !.pendingRequests[h.id] = NoCall]
               ELSE S3
       ELSE S2

\* one tabs.onUpdated event: the listener of line 203, then the listeners of
\* the sendChunks closures in the order they were added
RECURSIVE runListeners(_, _, _, _)
runListeners(S, i, tabId, h) ==
  IF i > Len(S.senders) THEN S
  ELSE runListeners(onUpdated(S, i, tabId, h), i + 1, tabId, h)
tabsOnUpdated(S, tabId, h) == runListeners(handleIncoming(S, tabId, h), 1, tabId, h)

(********************* src/unnamed/part_000 (content) **********************)
\* history.replaceState(null, '', '#' + payload): no hashchange is fired
sendRaw(S, payload) == Written(S, Win, payload)

sendNextC(S, i) ==
  LET s == S.senders[i]
      payload == MsgFrame(S.secret, s.type, s.id, s.index, SenderTotal(s),
                          SenderChunk(s))
      S1 == LogChunk(sendRaw(S, payload), s)
  IN [S1 EXCEPT !.senders[i].index = @ + 1]

\* the hashchange listener of sendChunks; it reads location.hash when it runs
AckExpectedC(S, s, h) == h = AckFrame(S.secret, s.id, s.index - 1)
handleAck(S, i) ==
  LET s == S.senders[i]
      h == S.slot[Win]
  IN IF ~s.listening THEN S
     ELSE IF AckExpectedC(S, s, h)
          THEN IF s.index < SenderTotal(s) THEN sendNextC(S, i)
               ELSE [S EXCEPT !.senders[i].listening = FALSE]
          ELSE S

\* sendChunks: the listener is registered and sendNext() runs at once
sendChunksC(S, type, id, data, c) ==
  LET S1 == [S EXCEPT !.senders =
               Append(@, [NewSender(Win, type, id, data, c) EXCEPT !.started = TRUE])]
  IN sendNextC(S1, Len(S1.senders))

Truthy(sec) == sec # Null /\ sec # ""

processQueueC(S) ==
  IF processQueueBusy(S.isSending) THEN S
  ELSE IF Len(S.sendQueue) = 0 THEN S
  ELSE IF ~Truthy(S.secret) THEN S
  ELSE LET c == QueueShift(S.sendQueue).item
           id == S.nextId
           S1 == [S EXCEPT !.isSending = TRUE,
                           !.sendQueue = QueueShift(@).rest,
                           !.nextId = @ + 1,
                           !.calls[c].status = "inflight",
                           !.pendingRequests[id] = c]
           S2 == sendChunksC(S1, "REQ", id, S.calls[c].message, c)
       IN [S2 EXCEPT !.timers = @ \cup {[id |-> id, call |-> c]}]

resolverC(S, c, result) ==
  processQueueC([Settle(S, c, "resolved", result) EXCEPT !.isSending = FALSE])

timeoutCallbackC(S, tm) ==
  IF S.pendingRequests[tm.id] # NoCall
  THEN LET S1 == [S EXCEPT !.pendingRequests[tm.id] = NoCall]
           S2 == Settle(S1, tm.call, "rejected", "Timeout")
       IN processQueueC([S2 EXCEPT !.isSending = FALSE])
  ELSE S

sendMessageC(S, c) ==
  processQueueC([S EXCEPT !.sendQueue = QueuePush(@, c)])

sendResponseC(S, d, response) ==
  IF d.responded THEN S
  ELSE sendChunksC(S, "RES", d.id, response, NoCall)

\* dispatchRequest up to its first await: the handlers are called in the
\* caller's turn until one returns something
dispatchRequestC(S, id, message) ==
  Dispatched(S, Advance(S, NewDispatch(S, Win, id, message, "loop")))

dispatchResumeC(S, i) ==
  LET d == S.dispatches[i]
      response == S.messageHandlers[d.pos].value
      S1 == sendResponseC(S, d, response)
  IN Resumed(S, S1, i,
             Advance(S1, [d EXCEPT !.responded = TRUE, !.pos = @ + 1]), response)

\* a handleIncoming that accepts every secret
SecretMatchesAny(S, h) == TRUE
\* match[1] === secret
SecretMatches(S, h) == h.secret = S.secret

handleIncomingC(S) ==
  LET h == S.slot[Win]
  IN
  IF h.k = "INIT"
  THEN LET S1 == [S EXCEPT !.secret = h.secret]
       IN processQueueC(sendRaw(S1, AckInitFrame(S1.secret)))
  ELSE IF h.k # "MSG" THEN S
  ELSE IF h.secret = "" THEN S
  ELSE IF ~SecretMatches(S, h) THEN S
  ELSE
    LET buffer == ArraySet(BufferFor(S, h.id, h.total), h.index, h.data)
        S1 == [S EXCEPT !.incomingBuffers[h.id] = [has |-> TRUE, arr |-> buffer]]
        S2 == sendRaw(S1, AckFrame(S1.secret, h.id, h.index))
    IN IF Filled(buffer) = h.total
       THEN LET parsed == decodeBase64(Join(buffer))
                S3 == [S2 EXCEPT !.incomingBuffers[h.id] = NoBuffer]
            IN IF ~parsed.ok THEN S2
               ELSE IF h.type = "REQ"
                    THEN dispatchRequestC(S3, h.id, parsed.msg)
               ELSE IF S3.pendingRequests[h.id] # NoCall
                    THEN LET S4 == resolverC(S3, S3.pendingRequests[h.id], parsed.msg)
                         IN [S4 EXCEPT !.pendingRequests[h.id] = NoCall]
               ELSE S3
       ELSE S2

\* one hashchange event: handleIncoming (added at load), then the handleAck
\* listeners that were registered when the event was fired, in order
RECURSIVE runHandleAcks(_, _, _)
runHandleAcks(S, i, n) ==
  IF i > n THEN S
  ELSE runHandleAcks(handleAck(S, i), i + 1, n)
windowHashChange(S) == runHandleAcks(handleIncomingC(S), 1, Len(S.senders))

(********************************* Init ************************************)
NoTabState == [has |-> FALSE, queue |-> <<>>, isSending |-> FALSE]
NoCallRec == [tab |-> 0, message |-> JSUndefined, status |-> "none",
              result |-> JSUndefined]
NoCodec == [phase |-> "idle", str |-> <<>>, size |-> 0, out |-> <<>>,
            full |-> <<>>]
NoPeer == [phase |-> "idle", id |-> PeerId, index |-> 0, resp |-> JSUndefined,
           seen |-> {}]

InitCommon ==
  /\ sendQueue = <<>>
  /\ isSending = FALSE
  /\ tabState = [t \in Tabs |-> NoTabState]
  /\ pendingRequests = [i \in Ids |-> NoCall]
  /\ incomingBuffers = [i \in Ids |-> NoBuffer]
  /\ messageHandlers = <<>>
  /\ senders = <<>>
  /\ timers = {}
  /\ dispatches = <<>>
  /\ dispatched = <<>>
  /\ notify = [t \in Tabs |-> <<>>]
  /\ calls = [c \in CallIds |-> NoCallRec]
  /\ settled = <<>>
  /\ nextId = 1
  /\ exposed = {}
  /\ reqLog = [c \in CallIds |-> <<>>]
  /\ lastEvent = Event("load", 0, Blank)
  /\ lastWrites = <<>>
  /\ peerCount = 0
  /\ peer = [t \in Tabs |-> NoPeer]
  /\ codec = NoCodec

\* bg: nothing runs at load but the registration of the listener (line 203)
InitBg ==
  /\ variant = "bg"
  /\ secret = NoSecret
  /\ slot = [t \in Tabs |-> Blank]
  /\ InitCommon

\* content: handleIncoming() runs once at load (line 191), on a fragment that
\* is empty or already holds the peer's INIT frame
InitContent ==
  /\ variant = "content"
  /\ InitCommon
  /\ \/ /\ secret = Null
        /\ slot = [t \in Tabs |-> Blank]
     \/ \E sec \in Secrets :
        /\ secret = sec
        /\ slot = [t \in Tabs |-> IF t = Win THEN AckInitFrame(sec) ELSE Blank]

\* the outgoing sessions of both endpoints, unobserved
Init == (InitBg \/ InitContent) /\ trace = FALSE /\ echo = FALSE

(******************************** actions **********************************)
IssuedCalls == {c \in CallIds : calls[c].status # "none"}
NewCall(S, c, tab, m) ==
  [S EXCEPT !.calls[c] = [tab |-> tab, message |-> m, status |-> "queued",
                          result |-> JSUndefined]]

\* the application calls sendMessage(tabId, message)
SendMessage(tabId, m, max) ==
  /\ variant = "bg"
  /\ Cardinality(IssuedCalls) < max
  /\ LET c == Cardinality(IssuedCalls) + 1
     IN Commit(sendMessage(NewCall(Cur(Event("send", tabId, Blank)), c, tabId, m),
                           tabId, c))
  /\ UNCHANGED <<peerCount, peer>>

SendMessageC(m, max) ==
  /\ variant = "content"
  /\ Cardinality(IssuedCalls) < max
  /\ LET c == Cardinality(IssuedCalls) + 1
     IN Commit(sendMessageC(NewCall(Cur(Event("send", Win, Blank)), c, Win, m), c))
  /\ UNCHANGED <<peerCount, peer>>

\* the application registers a handler; a handler returns undefined ("none"),
\* a value ("sync") or a promise of a value or of undefined ("async")
Handlers ==
  {[kind |-> "none", value |-> JSUndefined],
   [kind |-> "sync", value |-> "pong"],
   [kind |-> "async", value |-> "pong"],
   [kind |-> "async", value |-> JSUndefined]}

OnMessage(handler) ==
  /\ Len(messageHandlers) < MaxHandlers
  /\ Commit(onMessage(Cur(Event("onMessage", 0, Blank)), handler))
  /\ UNCHANGED <<peerCount, peer>>

\* a callback is told by the closure it belongs to: the message id it closes over
Closure(type, id) == Frame("", NoSecret, type, id, 0, 0, Hole)
TabsGetEvent(i) ==
  Event("tabsGet", senders[i].tab, Closure(senders[i].type, senders[i].id))
TimerEvent(tm) == Event("timer", calls[tm.call].tab, Closure("REQ", tm.id))

\* bg: the callback of browser.tabs.get in sendChunks
TabsGetDue(i) == variant = "bg" /\ i \in 1..Len(senders) /\ ~senders[i].started
TabsGet(i) ==
  /\ TabsGetDue(i)
  /\ Commit(tabsGetCallback(Cur(TabsGetEvent(i)), i))
  /\ UNCHANGED <<peerCount, peer>>

\* a 30 s timer of processQueue fires
Timeout(tm) ==
  /\ tm \in timers
  /\ LET S == [Cur(TimerEvent(tm)) EXCEPT !.timers = @ \ {tm}]
     IN IF variant = "bg" THEN Commit(timeoutCallback(S, tm))
        ELSE Commit(timeoutCallbackC(S, tm))
  /\ UNCHANGED <<peerCount, peer>>

\* a dispatchRequest coroutine resumes after an await
DispatchResume(i) ==
  /\ i \in 1..Len(dispatches)
  /\ LET S == Cur(Event("dispatch", dispatches[i].tab, Blank))
     IN IF variant = "bg" THEN Commit(dispatchResume(S, i))
        ELSE Commit(dispatchResumeC(S, i))
  /\ UNCHANGED <<peerCount, peer>>

\* bg: tabs.onUpdated reports a change of a tab's URL that the endpoint's own
\* browser.tabs.update made
OwnEcho(tabId) ==
  /\ variant = "bg"
  /\ notify[tabId] # <<>>
  /\ LET h == Head(notify[tabId])
         S == [Cur(Event("echo", tabId, h)) EXCEPT !.notify[tabId] = Tail(@)]
     IN Commit(tabsOnUpdated(S, tabId, h))
  /\ UNCHANGED <<peerCount, peer>>

(* The unconstrained peer writes any frame of the grammar whose message id  *)
(* it chose itself or has read from a slot.                                 *)
PeerChunks ==
  {[index |-> 0, total |-> 1, data |-> ChunksOf("pong")[1]],
   [index |-> 0, total |-> 2, data |-> ChunksOf("big")[1]],
   [index |-> 1, total |-> 2, data |-> ChunksOf("big")[2]]}
MsgFrames(secs, types, ids, maxTotal) ==
  {MsgFrame(sec, type, id, ch.index, ch.total, ch.data) :
     sec \in secs, type \in types, id \in ids,
     ch \in {c \in PeerChunks : c.total <= maxTotal}}
AckFrames(secs, ids, lowest) ==
  {AckFrame(sec, id, index) : sec \in secs, id \in ids, index \in lowest..1}
InitFrames(secs) == {InitFrame(sec) : sec \in secs}

\* bg: the peer changes the URL fragment of a tab and tabs.onUpdated reports it
PeerWrite(tabId, h, max) ==
  /\ variant = "bg"
  /\ peerCount < max
  /\ h # slot[tabId]
  /\ peerCount' = peerCount + 1
  /\ LET S == [Cur(Event("frame", tabId, h)) EXCEPT !.slot[tabId] = h]
     IN Commit(tabsOnUpdated(S, tabId, h))
  /\ UNCHANGED peer

\* content: the peer navigates the window to another fragment and hashchange fires
HashChange(h, max) ==
  /\ variant = "content"
  /\ peerCount < max
  /\ h # slot[Win]
  /\ peerCount' = peerCount + 1
  /\ LET S == [Cur(Event("frame", Win, h)) EXCEPT !.slot[Win] = h]
     IN Commit(windowHashChange(S))
  /\ UNCHANGED peer

(* Spec: the outgoing sessions.  The application sends, timers fire, and the *)
(* peer writes responses, acknowledgments and handshake frames at will; a    *)
(* response here is the one-chunk message "pong".  tabs.onUpdated reports    *)
(* every change of a tab's URL, whoever made it: PeerWrite stands for all of *)
(* them.  The two tabs are interchangeable, so the first call goes to tab 1. *)
SessionFrames(secs) ==
  MsgFrames(secs, {"RES"}, exposed, 1) \cup AckFrames(secs, exposed, 0)

Next ==
  \/ \E tabId \in Tabs, m \in Msgs :
       /\ tabId = 1 \/ IssuedCalls # {}
       /\ SendMessage(tabId, m, MaxCalls)
  \/ \E m \in Msgs : SendMessageC(m, MaxCalls)
  \/ \E i \in 1..MaxCalls : TabsGet(i)
  \/ \E tm \in timers : Timeout(tm)
  \/ \E tabId \in Tabs, h \in SessionFrames({NoSecret}) :
       PeerWrite(tabId, h, MaxPeerFrames)
  \/ \E h \in SessionFrames({"s1"}) \cup InitFrames({"s1", "s2", ""}) :
       HashChange(h, MaxPeerFrames)

Spec == Init /\ [][Next]_vars

(* SpecInbound: inbound traffic, observed.  One call, handlers registered   *)
(* before the first request is dispatched, and a peer that writes any ACK   *)
(* frame and any one-chunk MSG frame, with the right or a wrong secret.     *)
MaxCallsIn == 1
MaxPeerFramesIn == 2
InitInbound == (InitBg \/ InitContent) /\ trace = TRUE /\ echo = FALSE
KnownIds == {PeerId} \cup exposed
InboundFrames(secs) ==
  MsgFrames(secs, {"REQ", "RES"}, KnownIds, 1) \cup AckFrames(secs, KnownIds, -1)

NextInbound ==
  \/ \E tabId \in Tabs, m \in Msgs :
       /\ tabId = 1 \/ IssuedCalls # {}
       /\ SendMessage(tabId, m, MaxCallsIn)
  \/ \E m \in Msgs : SendMessageC(m, MaxCallsIn)
  \/ \E handler \in Handlers : dispatched = <<>> /\ OnMessage(handler)
  \/ \E i \in 1..MaxCallsIn + MaxPeerFramesIn : TabsGet(i)
  \/ \E tm \in timers : Timeout(tm)
  \/ \E i \in 1..MaxPeerFramesIn : DispatchResume(i)
  \/ \E tabId \in Tabs, h \in InboundFrames({NoSecret}) :
       PeerWrite(tabId, h, MaxPeerFramesIn)
  \/ \E h \in InboundFrames(Secrets) \cup InitFrames({"s1", ""}) :
       HashChange(h, MaxPeerFramesIn)

SpecInbound == InitInbound /\ [][NextInbound]_vars

(* The fair specifications.  The event loop runs every callback that is due *)
(* and the browser delivers every notification, hence weak fairness of the  *)
(* handlers.  A handler's step is told by the event it records: with trace  *)
(* on, the step of a handler that is due is exactly the step that sets      *)
(* lastEvent to its event, and that event differs from the one before       *)
(* (FairnessTellsSteps), so WF_lastEvent(Runs(e)) is weak fairness of the   *)
(* handler.                                                                 *)
Runs(ev) == lastEvent' = ev
TabsGetRuns == \E i \in 1..Len(senders) : TabsGetDue(i) /\ Runs(TabsGetEvent(i))
TimeoutRuns == \E tm \in timers : Runs(TimerEvent(tm))

(* SpecSilent: a peer that never writes a frame.  The application sends, the *)
(* callbacks of browser.tabs.get run and the timers fire.                    *)
NextSilent ==
  \/ \E tabId \in Tabs, m \in Msgs :
       /\ tabId = 1 \/ IssuedCalls # {}
       /\ SendMessage(tabId, m, MaxCalls)
  \/ \E m \in Msgs : SendMessageC(m, MaxCalls)
  \/ \E i \in 1..MaxCalls : TabsGet(i)
  \/ \E tm \in timers : Timeout(tm)

SpecSilent ==
  /\ InitInbound
  /\ [][NextSilent]_vars
  /\ WF_lastEvent(TabsGetRuns)
  /\ WF_lastEvent(TimeoutRuns)

(* SpecCompliant: a peer that follows the protocol.  It opens the session of *)
(* the content endpoint with INIT, acknowledges every REQ chunk it reads in  *)
(* the slot, and after the last one transmits a response of its choice as a  *)
(* RES chunk sequence, each chunk after the acknowledgment of the one before.*)
(* Its writes are reported to the endpoint (tabs.onUpdated, hashchange); a   *)
(* timer fires only after its request was answered.                          *)
MaxCallsRT == 2
MsgsRT == {"ping", "big", "huge"}
Replies == {"pong", "big"}
PeerSecret == IF variant = "bg" THEN NoSecret ELSE secret

\* the peer writes h to the slot and the endpoint handles the notification
Notified(tabId, h) ==
  /\ h # slot[tabId]
  /\ LET S == [Cur(Event("frame", tabId, h)) EXCEPT !.slot[tabId] = h]
     IN IF variant = "bg" THEN Commit(tabsOnUpdated(S, tabId, h))
        ELSE Commit(windowHashChange(S))
Deliver(tabId, h) == Notified(tabId, h) /\ UNCHANGED peerCount

PeerHandshake ==
  /\ variant = "content"
  /\ secret = Null
  /\ \E sec \in Secrets : Deliver(Win, InitFrame(sec))
  /\ UNCHANGED peer

PeerAckDue(tabId) ==
  /\ slot[tabId].k = "MSG" /\ slot[tabId].type = "REQ"
  /\ slot[tabId].secret = PeerSecret
  /\ peer[tabId].phase \in {"idle", "recv"}
PeerAckFrame(tabId) == AckFrame(PeerSecret, slot[tabId].id, slot[tabId].index)
PeerAck(tabId) ==
  LET f == slot[tabId]
  IN /\ PeerAckDue(tabId)
     /\ Deliver(tabId, PeerAckFrame(tabId))
     /\ \E resp \in Replies :
          peer' = [peer EXCEPT ![tabId] =
                     IF f.index + 1 = f.total
                     THEN [NoPeer EXCEPT !.phase = "respond", !.id = f.id,
                                         !.resp = resp]
                     ELSE [NoPeer EXCEPT !.phase = "recv", !.id = f.id,
                                         !.index = f.index + 1]]

PeerRespondDue(tabId) ==
  LET p == peer[tabId]
  IN /\ p.phase = "respond"
     /\ p.index = 0 \/ slot[tabId] = AckFrame(PeerSecret, p.id, p.index - 1)
PeerRespondFrame(tabId) ==
  LET p == peer[tabId]
      chunks == ChunksOf(p.resp)
  IN MsgFrame(PeerSecret, "RES", p.id, p.index, Len(chunks), chunks[p.index + 1])
PeerRespond(tabId) ==
  LET p == peer[tabId]
      chunks == ChunksOf(p.resp)
  IN /\ PeerRespondDue(tabId)
     /\ Deliver(tabId, PeerRespondFrame(tabId))
     /\ peer' = [peer EXCEPT ![tabId] =
                   IF p.index + 1 = Len(chunks)
                   THEN [p EXCEPT !.phase = "idle", !.index = 0]
                   ELSE [p EXCEPT !.index = p.index + 1]]

StaleTimeout(tm) == pendingRequests[tm.id] = NoCall /\ Timeout(tm)

NextCompliant ==
  \/ \E tabId \in Tabs, m \in MsgsRT :
       /\ tabId = 1 \/ IssuedCalls # {}
       /\ SendMessage(tabId, m, MaxCallsRT)
  \/ \E m \in MsgsRT : SendMessageC(m, MaxCallsRT)
  \/ \E i \in 1..MaxCallsRT : TabsGet(i)
  \/ \E tm \in timers : StaleTimeout(tm)
  \/ PeerHandshake
  \/ \E tabId \in Tabs : PeerAck(tabId)
  \/ \E tabId \in Tabs : PeerRespond(tabId)

PeerHandshakeRuns ==
  /\ variant = "content" /\ secret = Null
  /\ \E sec \in Secrets : Runs(Event("frame", Win, InitFrame(sec)))
PeerAckRuns(tabId) ==
  PeerAckDue(tabId) /\ Runs(Event("frame", tabId, PeerAckFrame(tabId)))
PeerRespondRuns(tabId) ==
  PeerRespondDue(tabId) /\ Runs(Event("frame", tabId, PeerRespondFrame(tabId)))

SpecCompliant ==
  /\ InitInbound
  /\ [][NextCompliant]_vars
  /\ WF_lastEvent(TabsGetRuns)
  /\ WF_lastEvent(PeerHandshakeRuns)
  /\ \A tabId \in Tabs :
       WF_lastEvent(PeerAckRuns(tabId)) /\ WF_lastEvent(PeerRespondRuns(tabId))

\* every handler that is due handles an event other than the last one
FairnessTellsSteps ==
  /\ \A i \in 1..Len(senders) : TabsGetDue(i) => TabsGetEvent(i) # lastEvent
  /\ \A tm \in timers : TimerEvent(tm) # lastEvent
  /\ \A tabId \in Tabs :
       /\ (variant = "content" /\ secret = Null) =>
            \A sec \in Secrets : Event("frame", Win, InitFrame(sec)) # lastEvent
       /\ PeerAckDue(tabId) => Event("frame", tabId, PeerAckFrame(tabId)) # lastEvent
       /\ PeerRespondDue(tabId) =>
            Event("frame", tabId, PeerRespondFrame(tabId)) # lastEvent

(* SpecCodec: the codec alone.  A text (any prefix of an encoding, or the    *)
(* whole encoding of a message) and a chunk size are chosen; chunkString     *)
(* cuts the text, the receiver's buffer.join('') puts the chunks together.   *)
MaxText == 20
MaxSize == 6
AllMsgs == Msgs \cup {"pong", "huge", JSUndefined}
Texts ==
  {<<Slice("ping", 0, n)>> : n \in 0..MaxText} \cup {encodeBase64(m) : m \in AllMsgs}
Sizes(str) ==
  IF TextLen(str) <= MaxText THEN 1..MaxSize
  ELSE {chunkSize \div 2, chunkSize, TextLen(str) - 1, TextLen(str), MAX_HASH_BYTES}

InitCodec ==
  /\ InitBg /\ trace = FALSE /\ echo = FALSE

CodecChoose(str, size) ==
  /\ codec.phase = "idle"
  /\ codec' = [codec EXCEPT !.phase = "chosen", !.str = str, !.size = size]

CodecChunk ==
  /\ codec.phase = "chosen"
  /\ codec' = [codec EXCEPT !.phase = "chunked",
                            !.out = chunkString(codec.str, codec.size)]

CodecJoin ==
  /\ codec.phase = "chunked"
  /\ codec' = [codec EXCEPT !.phase = "joined", !.full = Join(codec.out)]

CodecReset ==
  /\ codec.phase = "joined"
  /\ codec' = NoCodec

NextCodec ==
  /\ \/ \E str \in Texts : \E size \in Sizes(str) : CodecChoose(str, size)
     \/ CodecChunk
     \/ CodecJoin
     \/ CodecReset
  /\ UNCHANGED <<variant, secret, sendQueue, isSending, tabState,
                 pendingRequests, incomingBuffers, messageHandlers, senders,
                 timers, dispatches, dispatched, slot, trace, echo, notify,
                 calls, settled, nextId, exposed, reqLog, lastEvent, lastWrites,
                 peerCount, peer>>

SpecCodec == InitCodec /\ [][NextCodec]_vars

(* SpecReassembly: the peer transmits one message of two or three chunks,   *)
(* a request or the response to the call in flight, and writes its chunks   *)
(* in any order and any number of times, in tab 1.  peer[tab].seen is the set of      *)
(* indices written since the message was last put together.                 *)
MaxChunkFrames == 5
Scattered == {"big", "huge"}
InitReassembly ==
  /\ InitBg \/ (InitContent /\ secret # Null)
  /\ trace = TRUE /\ echo = FALSE

PeerScatter(tabId, type, id, msg, k) ==
  LET p == peer[tabId]
      chunks == ChunksOf(msg)
      all == 0..(Len(chunks) - 1)
  IN /\ peerCount < MaxChunkFrames
     /\ \/ p.phase = "idle"
        \/ p.phase = type /\ p.id = id /\ p.resp = msg
     /\ k \in all
     /\ Notified(tabId, MsgFrame(PeerSecret, type, id, k, Len(chunks), chunks[k + 1]))
     /\ peerCount' = peerCount + 1
     /\ peer' = [peer EXCEPT ![tabId] =
                   [NoPeer EXCEPT !.phase = type, !.id = id, !.resp = msg,
                                  !.seen = IF p.seen \cup {k} = all THEN {}
                                           ELSE p.seen \cup {k}]]

NextReassembly ==
  \/ \E m \in {"ping"} : SendMessage(1, m, MaxCallsIn)
  \/ \E m \in {"ping"} : SendMessageC(m, MaxCallsIn)
  \/ \E i \in 1..MaxCallsIn : TabsGet(i)
  \/ \E tm \in timers : Timeout(tm)
  \/ \E i \in 1..MaxChunkFrames : DispatchResume(i)
  \/ \E type \in {"REQ", "RES"}, id \in KnownIds, msg \in Scattered, k \in 0..2 :
       PeerScatter(Win, type, id, msg, k)

SpecReassembly == InitReassembly /\ [][NextReassembly]_vars

(* SpecTotals: a peer that does not keep to one message per id.  It writes  *)
(* chunks of different messages, with different totals, under one id, and   *)
(* a frame that announces one chunk but carries only the beginning of an    *)
(* encoding.                                                                *)
MaxMixedFrames == 3
TruncatedChunks == {[index |-> 0, total |-> 1, data |-> ChunksOf("big")[1]]}
MixedFrames(secs) ==
  {MsgFrame(sec, type, id, ch.index, ch.total, ch.data) :
     sec \in secs, type \in {"REQ", "RES"}, id \in KnownIds,
     ch \in PeerChunks \cup TruncatedChunks}

NextTotals ==
  \/ \E m \in {"ping"} : SendMessage(1, m, MaxCallsIn)
  \/ \E m \in {"ping"} : SendMessageC(m, MaxCallsIn)
  \/ \E i \in 1..MaxCallsIn : TabsGet(i)
  \/ \E i \in 1..MaxMixedFrames : DispatchResume(i)
  \/ \E h \in MixedFrames({NoSecret}) : PeerWrite(1, h, MaxMixedFrames)
  \/ \E h \in MixedFrames({secret}) : HashChange(h, MaxMixedFrames)

SpecTotals == InitReassembly /\ [][NextTotals]_vars

(* SpecStale: two calls, observed.  Timers fire before and after the        *)
(* response, and responses arrive before and after the timeout.             *)
MaxCallsStale == 2
NextStale ==
  \/ \E tabId \in Tabs, m \in Msgs :
       /\ tabId = 1 \/ IssuedCalls # {}
       /\ SendMessage(tabId, m, MaxCallsStale)
  \/ \E m \in Msgs : SendMessageC(m, MaxCallsStale)
  \/ \E i \in 1..MaxCallsStale : TabsGet(i)
  \/ \E tm \in timers : Timeout(tm)
  \/ \E tabId \in Tabs, h \in SessionFrames({NoSecret}) :
       PeerWrite(tabId, h, MaxPeerFrames)
  \/ \E h \in SessionFrames({secret}) : HashChange(h, MaxPeerFrames)

SpecStale == InitInbound /\ [][NextStale]_vars

(* SpecCeiling: the frames the endpoint writes, measured.  The peer opens   *)
(* the session with a short or a long secret and acknowledges the chunks;   *)
(* requests of one, two and three chunks are sent.                          *)
PeerHandshakeLong ==
  /\ variant = "content"
  /\ secret = Null
  /\ Deliver(Win, InitFrame(LongSecret))
  /\ UNCHANGED peer

NextCeiling ==
  \/ \E m \in MsgsRT : SendMessage(1, m, MaxCallsRT)
  \/ \E m \in MsgsRT : SendMessageC(m, MaxCallsRT)
  \/ \E i \in 1..MaxCallsRT : TabsGet(i)
  \/ \E tm \in timers : Timeout(tm)
  \/ PeerHandshake
  \/ PeerHandshakeLong
  \/ PeerAck(Win)

SpecCeiling == InitInbound /\ [][NextCeiling]_vars

(* SpecEcho: bg with tabs.onUpdated firing for the endpoint's own           *)
(* browser.tabs.update calls as well; no peer writes anything.              *)
MaxCallsEcho == 2
InitEcho == InitBg /\ trace = TRUE /\ echo = TRUE

NextEcho ==
  \/ \E m \in {"ping", "big"} : SendMessage(1, m, MaxCallsEcho)
  \/ \E handler \in Handlers : dispatched = <<>> /\ OnMessage(handler)
  \/ \E i \in 1..2 * MaxCallsEcho : TabsGet(i)
  \/ \E tm \in timers : Timeout(tm)
  \/ \E i \in 1..MaxCallsEcho : DispatchResume(i)
  \/ \E tabId \in Tabs : OwnEcho(tabId)

SpecEcho == InitEcho /\ [][NextEcho]_vars

(************************** the claims, under Spec *************************)
Issued(c) == calls[c].status # "none"
Unsettled(c) == calls[c].status \in {"queued", "inflight"}
IsSettled(c) == calls[c].status \in {"resolved", "rejected"}
SameDest(c1, c2) == Issued(c1) /\ Issued(c2) /\ calls[c1].tab = calls[c2].tab
\* the queue and the isSending flag of a destination, for either endpoint
DestQueue(t) == IF variant = "bg" THEN tabState[t].queue ELSE sendQueue
DestSending(t) == IF variant = "bg" THEN tabState[t].isSending ELSE isSending

\* C1: while a call to a destination is unsettled, every later call to the
\* same destination is only queued, and no chunk of it has been written.
SingleFlight ==
  \A c1, c2 \in CallIds :
    (c1 < c2 /\ SameDest(c1, c2) /\ Unsettled(c1)) =>
      /\ calls[c2].status = "queued"
      /\ reqLog[c2] = <<>>
      /\ \E k \in 1..Len(DestQueue(calls[c2].tab)) : DestQueue(calls[c2].tab)[k] = c2

\* a later call waits in the queue while the first chunks of an earlier call
\* to the same destination are on the wire
SingleFlightWitness ==
  \E c1, c2 \in CallIds :
    /\ c1 < c2 /\ SameDest(c1, c2)
    /\ calls[c1].status = "inflight" /\ reqLog[c1] = <<0, 1>>
    /\ calls[c2].status = "queued"

\* C2: the calls to one destination settle in the order they were issued:
\* a settled call has no unsettled earlier call to its destination, and the
\* order of settlement agrees with the order of issue.
Fifo ==
  /\ \A c1, c2 \in CallIds :
       (c1 < c2 /\ SameDest(c1, c2) /\ IsSettled(c2)) => IsSettled(c1)
  /\ \A i, j \in 1..Len(settled) :
       (i < j /\ SameDest(settled[i], settled[j])) => settled[i] < settled[j]

\* three calls to one destination: the first was resolved by the peer's
\* response, the second has settled after it, the third is still waiting
FifoWitness ==
  /\ \A c \in CallIds : Issued(c) /\ calls[c].tab = 1
  /\ Len(settled) = 2
  /\ calls[1].status = "resolved" /\ calls[1].result = "pong"
  /\ IsSettled(2) /\ Unsettled(3)

\* C4: when a timer fires whose request is still pending, the request leaves
\* pendingRequests, its caller is rejected with Timeout, and the destination
\* goes on: with an empty queue isSending is cleared, otherwise the oldest
\* queued call is dequeued and its transmission begun (content: its chunk 0
\* is written in the same turn; bg: its sendChunks closure is registered and
\* browser.tabs.get asked, whose callback writes chunk 0).
TimeoutRecovers(tm) ==
  LET t == calls[tm.call].tab
      q == DestQueue(t)
  IN /\ pendingRequests'[tm.id] = NoCall
     /\ calls'[tm.call].status = "rejected"
     /\ calls'[tm.call].result = "Timeout"
     /\ q = <<>> => ~DestSending(t)'
     /\ q # <<>> =>
          /\ DestSending(t)'
          /\ DestQueue(t)' = Tail(q)
          /\ calls'[Head(q)].status = "inflight"
          /\ \E i \in 1..Len(senders') :
               /\ senders'[i].call = Head(q) /\ senders'[i].type = "REQ"
               /\ variant = "content" => reqLog'[Head(q)] = <<0>>
TimeoutRecovery ==
  [][\A tm \in timers :
       (tm \notin timers' /\ pendingRequests[tm.id] # NoCall) => TimeoutRecovers(tm)]_vars

(*********************** the claims, under SpecInbound *********************)
FrameEvent == lastEvent.kind = "frame"
WrittenBefore(j, f) == \E i \in 1..(j - 1) : lastWrites[i].frame = f

\* C3: a chunk with index k+1 >= 1 is written only in a turn in which the
\* ACK frame with the same id (in content: and the session secret) and index
\* k is observed: as the reported URL (bg), or as location.hash, which is
\* the frame of the event or one the turn itself wrote before (content);
\* and an ACK frame that acknowledges no chunk (index < 0) causes no write.
AckGating ==
  /\ \A j \in 1..Len(lastWrites) :
       LET w == lastWrites[j].frame
           ack == AckFrame(w.secret, w.id, w.index - 1)
       IN (w.k = "MSG" /\ w.index >= 1) =>
            /\ FrameEvent
            /\ \/ lastEvent.frame = ack /\ lastEvent.tab = lastWrites[j].tab
               \/ variant = "content" /\ WrittenBefore(j, ack)
  /\ (FrameEvent /\ lastEvent.frame.k = "ACK" /\ lastEvent.frame.index < 0)
       => lastWrites = <<>>

\* C7: in the content endpoint, a MSG or ACK frame whose secret is not the
\* stored one changes nothing but the slot it was written to: no buffer, no
\* pending request, no call, no sendChunks closure, no coroutine, no write.
ForeignFrame(ev, sec) ==
  ev.kind = "frame" /\ ev.frame.k \in {"MSG", "ACK"} /\ ev.frame.secret # sec
CrossTalkIsolation ==
  [][(variant = "content" /\ ForeignFrame(lastEvent', secret)) =>
       /\ UNCHANGED <<secret, sendQueue, isSending, pendingRequests,
                      incomingBuffers, messageHandlers, senders, timers,
                      dispatches, dispatched, calls, settled, nextId, reqLog>>
       /\ lastWrites' = <<>>
       /\ slot'[Win] = lastEvent'.frame]_vars

\* a RES frame with a foreign secret that carries, complete, a response for
\* the id of the request in flight, while a handler is registered
CrossTalkWitness ==
  /\ variant = "content" /\ secret \in Secrets
  /\ ForeignFrame(lastEvent, secret)
  /\ lastEvent.frame.k = "MSG" /\ lastEvent.frame.type = "RES"
  /\ lastEvent.frame.secret \in Secrets
  /\ pendingRequests[lastEvent.frame.id] # NoCall
  /\ messageHandlers # <<>>

\* C8: in the bg endpoint a frame observed on tab B, or the timeout of a
\* request to B, leaves every other tab's queue and isSending flag and every
\* call to another tab as they were.
DestinationIsolation ==
  [][(variant = "bg" /\ lastEvent'.kind \in {"frame", "timer"}) =>
       \A a \in Tabs \ {lastEvent'.tab} :
         /\ tabState'[a] = tabState[a]
         /\ \A c \in CallIds : calls[c].tab = a => calls'[c] = calls[c]]_vars

\* C9: no dispatchRequest call hands more than one response to sendChunks.
OneResponse == \A n \in 1..Len(dispatched) : Len(dispatched[n].sent) <= 1

\* a dispatch has ended in which two handlers produced a result, and one
\* response was sent
OneResponseWitness ==
  /\ Len(messageHandlers) = 2
  /\ \A p \in 1..2 : messageHandlers[p].kind # "none"
  /\ \E n \in 1..Len(dispatched) :
       dispatched[n].done /\ Len(dispatched[n].sent) = 1

\* C10: when the handler loop of a dispatch has ended, what it transmitted
\* is the result of the first handler, in registration order, whose result
\* (for a promise: the value it resolves to) is not undefined, and nothing
\* if there is no such handler.
NonEmpty(handler) == handler.kind # "none" /\ handler.value # JSUndefined
RECURSIVE FirstNonEmpty(_, _)
FirstNonEmpty(handlers, p) ==
  IF p > Len(handlers) THEN <<>>
  ELSE IF NonEmpty(handlers[p]) THEN <<handlers[p].value>>
  ELSE FirstNonEmpty(handlers, p + 1)
ResponseSelection ==
  \A n \in 1..Len(dispatched) :
    dispatched[n].done => dispatched[n].sent = FirstNonEmpty(messageHandlers, 1)

(******************* the claims, under the fair specifications *************)
\* C5: every sendMessage call eventually settles, whatever the peer does,
\* a silent peer included.
NoStarvation == \A c \in CallIds : Issued(c) ~> IsSettled(c)

\* C6: with a compliant peer, the REQ chunks of a call are written in index
\* order 0..n-1, the call is resolved only after all of them, with exactly
\* the message that the peer's RES sequence carries, and every call is
\* eventually resolved.
ChunkIndices(c) == [k \in 1..Len(ChunksOf(calls[c].message)) |-> k - 1]
InIndexOrder(c) ==
  /\ Len(reqLog[c]) <= Len(ChunkIndices(c))
  /\ reqLog[c] = SubSeq(ChunkIndices(c), 1, Len(reqLog[c]))
Resolves(c) == calls[c].status # "resolved" /\ calls'[c].status = "resolved"
CeilDiv(a, b) == (a + b - 1) \div b
CodecRoundTrip ==
  /\ codec.phase \in {"chunked", "joined"} =>
       /\ Len(codec.out) = CeilDiv(TextLen(codec.str), codec.size)
       /\ \A k \in 1..Len(codec.out) :
            /\ SLen(codec.out[k]) <= codec.size
            /\ SLen(codec.out[k]) >= 1
            /\ codec.out[k].src = codec.str[1].src
            /\ codec.out[k].lo = codec.str[1].lo + (k - 1) * codec.size
  /\ codec.phase = "joined" =>
       /\ TextLen(codec.str) > 0 => codec.full = codec.str
       /\ TextLen(codec.str) = 0 => codec.full = <<>>
       /\ \A m \in Msgs \cup {"pong", "huge"} :
            codec.str = encodeBase64(m) =>
              decodeBase64(codec.full) = [ok |-> TRUE, msg |-> m]

\* a message whose encoding took three chunks, of which the last is shorter,
\* has been put together again
CodecRoundTripWitness ==
  /\ codec.phase = "joined"
  /\ codec.str = encodeBase64("huge")
  /\ Len(codec.out) = 3
  /\ SLen(codec.out[3]) < codec.size

(********************* the claims, under SpecReassembly ********************)
\* C14: chunks of one message, all reporting the same total n, arrive in any
\* order and any number of times.  A chunk's arrival completes the message
\* exactly when, with it, every index 0..n-1 has arrived at least once since
\* the last completion; the completed message is the original one (the text
\* is the concatenation in index order), and until then the buffer holds
\* exactly the indices that arrived.
ChunkEvent(ev) == ev.kind = "frame" /\ ev.frame.k = "MSG"
HeldIndices(buf) == {i - 1 : i \in {j \in 1..Len(buf.arr) : buf.arr[j] # Hole}}
Reassembly ==
  [][ChunkEvent(lastEvent') =>
       LET f == lastEvent'.frame
           msg == peer'[Win].resp
           now == peer[Win].seen \cup {f.index}
           c == pendingRequests[f.id]
       IN IF now = 0..(f.total - 1)
          THEN /\ incomingBuffers'[f.id] = NoBuffer
               /\ f.type = "REQ" =>
                    /\ Len(dispatched') = Len(dispatched) + 1
                    /\ variant = "bg" =>
                         dispatches'[Len(dispatches')].message = msg
               /\ (f.type = "RES" /\ c # NoCall) =>
                    /\ calls'[c].status = "resolved"
                    /\ calls'[c].result = msg
          ELSE /\ incomingBuffers'[f.id].has
               /\ HeldIndices(incomingBuffers'[f.id]) = now
               /\ UNCHANGED <<dispatched, settled>>]_vars

\* a three-chunk response, put together by the fifth frame, which carried
\* index 0: two frames were duplicates and the order was not the index order
ReassemblyWitness ==
  /\ ChunkEvent(lastEvent) /\ lastEvent.frame.index = 0
  /\ peerCount = MaxChunkFrames
  /\ peer[Win].seen = {}
  /\ calls[1].status = "resolved" /\ calls[1].result = "huge"


(*********************** the claims, under SpecTotals **********************)
\* C15: when the first chunk of an id left its message incomplete and the
\* next chunk of that id reports another total than the first did, the entry
\* of that id is discarded and nothing is completed: no request is
\* dispatched and no call is resolved.
ConflictingTotal ==
  [][(/\ ChunkEvent(lastEvent) /\ ChunkEvent(lastEvent')
      /\ peerCount = 1
      /\ lastEvent'.frame.id = lastEvent.frame.id
      /\ incomingBuffers[lastEvent.frame.id].has
      /\ Filled(incomingBuffers[lastEvent.frame.id].arr) < lastEvent.frame.total
      /\ lastEvent'.frame.total # lastEvent.frame.total) =>
       /\ incomingBuffers'[lastEvent.frame.id] = NoBuffer
       /\ UNCHANGED <<dispatched, settled>>]_vars

\* C16: after every event, every entry of incomingBuffers has an unfilled
\* slot: an entry whose last slot was filled has been removed, whether or
\* not its text could be decoded.
NoCompletedEntry ==
  \A id \in Ids :
    incomingBuffers[id].has =>
      Filled(incomingBuffers[id].arr) < Len(incomingBuffers[id].arr)


(*********************** the claims, under SpecStale ***********************)
\* C17: no call settles twice; a timer that fires when its request is no
\* longer pending, and a response that arrives for an id with no pending
\* request, settle no call and leave every queue and isSending flag as they
\* were; and isSending is set for as long as a request is in flight.
StaleTimer(ev) == ev.kind = "timer" /\ pendingRequests[ev.frame.id] = NoCall
StaleResponse(ev) ==
  /\ ev.kind = "frame" /\ ev.frame.k = "MSG" /\ ev.frame.type = "RES"
  /\ pendingRequests[ev.frame.id] = NoCall
SettledOnce ==
  /\ [](\A i, j \in 1..Len(settled) : i # j => settled[i] # settled[j])
  /\ [](\A c \in CallIds :
          calls[c].status = "inflight" => DestSending(calls[c].tab))
  /\ [][(StaleTimer(lastEvent') \/ StaleResponse(lastEvent')) =>
          UNCHANGED <<tabState, sendQueue, isSending, calls, settled,
                      pendingRequests>>]_vars

\* the timer of an answered request has fired while the next request to the
\* same destination was in flight
SettledOnceWitness ==
  /\ lastEvent.kind = "timer" /\ lastEvent.frame.id = 1
  /\ calls[1].status = "resolved"
  /\ calls[2].status = "inflight" /\ calls[2].tab = calls[1].tab
  /\ DestSending(calls[2].tab)


(********************** the claims, under SpecCeiling **********************)
\* C18: every MSG frame the endpoint writes is at most MAX_HASH_BYTES
\* characters long, whatever the message and whatever the secret.
SlotCeiling ==
  \A j \in 1..Len(lastWrites) :
    lastWrites[j].frame.k = "MSG" =>
      MsgFrameLen(lastWrites[j].frame) <= MAX_HASH_BYTES


\* C19: once a request was resolved or has timed out, none of its chunks is
\* written any more, even when an acknowledgment of one of its earlier chunks
\* is observed later.
LateAck(ev) ==
  /\ ev.kind = "frame" /\ ev.frame.k = "ACK"
  /\ ev.frame.id \in CallIds
  /\ pendingRequests[ev.frame.id] = NoCall
OneActiveTransmission ==
  [][LateAck(lastEvent') =>
       \A j \in 1..Len(lastWrites') :
         LET f == lastWrites'[j].frame
         IN ~(f.k = "MSG" /\ f.type = "REQ" /\ f.id = lastEvent'.frame.id)]_vars

(************************ the claims, under SpecEcho ***********************)
\* C20: in bg, the change notification of a frame the endpoint wrote itself
\* is not incoming traffic: it fills no buffer, is not acknowledged, reaches
\* no handler and advances no chunk transmission.
NoSelfDelivery ==
  [][lastEvent'.kind = "echo" =>
       /\ UNCHANGED <<incomingBuffers, dispatches, dispatched, senders>>
       /\ lastWrites' = <<>>]_vars


(****************** more claims, under SpecInbound and Spec ****************)
\* C12: in the content endpoint, before an INIT frame has been received no
\* MSG frame is buffered, acknowledged or dispatched, nothing is written and
\* every call stays queued; and the step that receives the first INIT:<s>
\* stores s, writes ACK-INIT:<s> and begins the transmission of the oldest
\* queued call.
InitEvent(ev) == ev.kind = "frame" /\ ev.frame.k = "INIT"
HandshakeGating ==
  [][(variant = "content" /\ secret = Null) =>
       /\ ~InitEvent(lastEvent') =>
            /\ secret' = Null
            /\ lastWrites' = <<>>
            /\ UNCHANGED <<incomingBuffers, dispatched, reqLog, senders>>
            /\ \A c \in CallIds : calls'[c].status \in {"none", "queued"}
       /\ InitEvent(lastEvent') =>
            /\ secret' = lastEvent'.frame.secret
            /\ lastWrites' # <<>>
            /\ lastWrites'[1].frame = AckInitFrame(lastEvent'.frame.secret)
            /\ sendQueue # <<>> =>
                 /\ sendQueue' = Tail(sendQueue)
                 /\ calls'[Head(sendQueue)].status = "inflight"
                 /\ reqLog'[Head(sendQueue)] = <<0>>]_vars

\* C13: once the content endpoint has stored a secret, the stored secret
\* never changes, whatever frame is observed.
SecretOnce ==
  [][(variant = "content" /\ secret # Null) => secret' = secret]_vars

====
